---- MODULE Spec2Model ----
(***************************************************************************)
(* Model of the mikoshi chatbot repository:                                *)
(*   - ChatbotService (src/src/chatbot/service.py) driving the one-node    *)
(*     LangGraph pipeline of src/src/chatbot/graph.py,                     *)
(*   - initialize_llm (src/src/utils/llm_utils.py),                        *)
(*   - clean_prompt (src/src/utils/prompt_utils.py),                       *)
(*   - S3Utils (src/src/utils/s3_utils.py).                                *)
(* Text is modelled as a sequence of characters, each character a string.  *)
(* Special characters carry a name: "SP" space, "TAB", "NL" newline,       *)
(* "CR" carriage return, "BS" backslash.                                   *)
(***************************************************************************)
EXTENDS Integers, Sequences, FiniteSets, TLC

VARIABLES
    \* ---- ChatbotService ----
    messages,       \* self.state["messages"]: the one list object of the service
    pc,             \* per caller: position inside chat()
    arg,            \* per caller: user_input of the chat() in progress
    llmIn,          \* per caller: the message list llm.invoke received
    resp,           \* per caller: the content of the response llm.invoke returned
    ret,            \* per caller: what chat() returned (or the raised failure)
    pre,            \* history variable: messages when the chat() was entered
    sinceReset,     \* history variable: chat() calls since construction / last reset()
    okSinceReset,   \* history variable: those of them whose model call succeeded
    wasReset,       \* history variable: reset() has been called
    dropped,        \* history variable: how many messages the last reset() discarded
    overlap,        \* history variable: a chat() was entered while another was running
    trace,          \* per caller: the pipeline states the chat() in progress went through
    retry_counts,   \* the module-level dict of nodes/reflect.py
    \* ---- the nodes that are not part of the compiled graph ----
    conv,           \* state["messages"] of the ChatState a node is called with
    nodeRet,        \* outcome of the last node call
    \* ---- initialize_llm ----
    cfgName,        \* config["llm_config"]["client"]["name"]
    llm,            \* the module-level llm of graph.py
    built,          \* provider clients constructed so far
    netCalls,       \* requests sent to a provider
    \* ---- clean_prompt ----
    cpIn, cpFlags, cpOut, cpOut2, cpPc,
    \* ---- S3Utils ----
    bucket,         \* keys held by the bucket
    store,          \* how the service answers: "up", "denied", "unreachable"
    s3ret,          \* outcome of the last S3Utils call
    localDirs,      \* directories of the local file system
    localFiles,     \* local files, each with the key it was downloaded from
    downloads       \* download_file calls of the last copy_s3_dir_to_local

chatVars  == <<messages, pc, arg, llmIn, resp, ret, pre, sinceReset, okSinceReset, wasReset,
               dropped, overlap, trace, retry_counts>>
llmVars   == <<cfgName, llm, built, netCalls>>
cleanVars == <<cpIn, cpFlags, cpOut, cpOut2, cpPc>>
s3Vars    == <<bucket, store, s3ret, localDirs, localFiles, downloads>>
nodeVars  == <<conv, nodeRet>>
vars      == <<chatVars, nodeVars, llmVars, cleanVars, s3Vars>>

NoValue == "NoValue"

(***************************************************************************)
(* Bounds of the model.                                                    *)
(***************************************************************************)
MaxMsgs     == 4    \* a chat() starts only while the history is shorter than this
MaxConcMsgs == 3    \* the same, for calls that are not serialised
MaxConv     == 3    \* a node is called with a conversation of at most this many messages
MaxNetCalls == 2    \* provider requests counted up to this
MaxChunks   == 4    \* clean_prompt inputs are built from at most this many pieces
MaxKeys     == 2    \* keys per list response (1000 at the real service)

(***************************************************************************)
(* Generic helpers on sequences.                                           *)
(***************************************************************************)
Last(s) == s[Len(s)]

StartsWith(s, p) == Len(p) <= Len(s) /\ SubSeq(s, 1, Len(p)) = p

EndsWith(s, p) == Len(p) <= Len(s) /\ SubSeq(s, Len(s) - Len(p) + 1, Len(s)) = p

Drop(s, n) == SubSeq(s, n + 1, Len(s))

(***************************************************************************)
(* ChatbotService and the compiled graph.                                  *)
(***************************************************************************)
Callers == {"u1", "u2"}
Inputs  == {"x1", "x2"}
Replies == {"r1", "r2"}

HumanMessage(x) == [role |-> "human", content |-> x]
AIMessage(r)    == [role |-> "assistant", content |-> r]

GenerationFailure == "GenerationFailure"

Idle(c) == pc[c] = "idle"

\* the caller is inside chat(): between its first line and its return or raise
Running(c) == pc[c] \in {"invoke", "append", "read", "reflect"}

\* graph.py:15-20  the compiled graph: its entry point, and where it goes when a
\* node has run ("END" after the finish point; no other edge is added)
EntryPoint == "chatbot"
FinishPoint == "chatbot"

\* (mutant) the reflection node wired in after the chatbot node
AfterNodeReflect(node) == IF node = "chatbot" THEN "reflect" ELSE "END"

AfterNode(node) == IF node = FinishPoint THEN "END" ELSE NoValue

\* where a caller stands when the graph moves on to a node, or past END back
\* into chat() (service.py:24)
StepOf(node) ==
    IF node = "END" THEN "read" ELSE IF node = "chatbot" THEN "invoke" ELSE node

\* the pipeline state the graph is in when it moves on to a node
StateOf(node) ==
    IF node = "END" THEN "Done" ELSE IF node = "chatbot" THEN "Generating" ELSE "Reflecting"

InitChat ==
    /\ messages = <<>>
    /\ pc = [c \in Callers |-> "idle"]
    /\ arg = [c \in Callers |-> NoValue]
    /\ llmIn = [c \in Callers |-> <<>>]
    /\ resp = [c \in Callers |-> NoValue]
    /\ ret = [c \in Callers |-> NoValue]
    /\ pre = [c \in Callers |-> <<>>]
    /\ sinceReset = 0
    /\ okSinceReset = 0
    /\ wasReset = FALSE
    /\ dropped = 0
    /\ overlap = FALSE
    /\ trace = [c \in Callers |-> <<>>]
    /\ retry_counts = <<>>

\* (mutant) an input equal to the message at the tail is not appended again
AppendHumanOnce(msgs, x) ==
    IF msgs # <<>> /\ Last(msgs) = HumanMessage(x) THEN msgs ELSE Append(msgs, HumanMessage(x))

\* service.py:21  self.state["messages"].append(HumanMessage(content=user_input))
AppendHuman(msgs, x) == Append(msgs, HumanMessage(x))

ChatAppend(c, x) ==
    /\ Idle(c)
    /\ Len(messages) < MaxMsgs
    /\ messages' = AppendHuman(messages, x)
    /\ pc' = [pc EXCEPT ![c] = "invoke"]
    /\ arg' = [arg EXCEPT ![c] = x]
    /\ pre' = [pre EXCEPT ![c] = messages]
    /\ llmIn' = [llmIn EXCEPT ![c] = <<>>]
    /\ resp' = [resp EXCEPT ![c] = NoValue]
    /\ ret' = [ret EXCEPT ![c] = NoValue]
    /\ sinceReset' = sinceReset + 1
    /\ overlap' = (overlap \/ \E d \in Callers \ {c} : Running(d))
    /\ trace' = [trace EXCEPT ![c] = <<"Start">>]
    /\ UNCHANGED <<okSinceReset, wasReset, dropped, retry_counts>>

\* (mutant) the model is given the last message alone
LlmInputLastOnly(msgs) == <<Last(msgs)>>

\* graph.py:10  response = llm.invoke(state["messages"]), the call returning r
LlmInput(msgs) == msgs

LlmInvokeOk(c, r) ==
    /\ pc[c] = "invoke"
    /\ llmIn' = [llmIn EXCEPT ![c] = LlmInput(messages)]
    /\ resp' = [resp EXCEPT ![c] = r]
    /\ pc' = [pc EXCEPT ![c] = "append"]
    /\ okSinceReset' = okSinceReset + 1
    /\ trace' = [trace EXCEPT ![c] = Append(@, StateOf(EntryPoint))]
    /\ UNCHANGED <<messages, arg, ret, pre, sinceReset, wasReset, dropped, overlap, retry_counts>>

\* (mutant) the failure undoes the append of the human message
LlmInvokeFailRollback(c) ==
    /\ pc[c] = "invoke"
    /\ messages' = pre[c]
    /\ llmIn' = [llmIn EXCEPT ![c] = LlmInput(messages)]
    /\ ret' = [ret EXCEPT ![c] = GenerationFailure]
    /\ pc' = [pc EXCEPT ![c] = "failed"]
    /\ trace' = [trace EXCEPT ![c] = Append(@, StateOf(EntryPoint))]
    /\ UNCHANGED <<arg, resp, pre, sinceReset, okSinceReset, wasReset, dropped, overlap,
                   retry_counts>>

\* graph.py:10  llm.invoke raises: the exception leaves chatbot_node, app.invoke
\* (service.py:24) and chat(); nothing after line 21 of chat() has run
LlmInvokeFail(c) ==
    /\ pc[c] = "invoke"
    /\ llmIn' = [llmIn EXCEPT ![c] = LlmInput(messages)]
    /\ ret' = [ret EXCEPT ![c] = GenerationFailure]
    /\ pc' = [pc EXCEPT ![c] = "failed"]
    /\ trace' = [trace EXCEPT ![c] = Append(@, StateOf(EntryPoint))]
    /\ UNCHANGED <<messages, arg, resp, pre, sinceReset, okSinceReset, wasReset, dropped,
                   overlap, retry_counts>>

\* (mutant) the node returns the response alone and the history is lost
ResponseAlone(msgs, r) == <<AIMessage(r)>>

\* graph.py:11  state["messages"].append(response)
AppendResponse(msgs, r) == Append(msgs, AIMessage(r))

NodeAppend(c) ==
    /\ pc[c] = "append"
    /\ messages' = AppendResponse(messages, resp[c])
    /\ pc' = [pc EXCEPT ![c] = StepOf(AfterNode("chatbot"))]
    /\ trace' = [trace EXCEPT ![c] = Append(@, StateOf(AfterNode("chatbot")))]
    /\ UNCHANGED <<arg, llmIn, resp, ret, pre, sinceReset, okSinceReset, wasReset, dropped,
                   overlap, retry_counts>>

\* (mutant) the reply read from the head of the list
BotReplyFirst(msgs) == Head(msgs).content

\* service.py:24,27,28  self.state = <the graph's state, the same list>;
\* bot_reply = self.state["messages"][-1].content; return bot_reply
BotReply(msgs) == Last(msgs).content

ChatReturn(c) ==
    /\ pc[c] = "read"
    /\ ret' = [ret EXCEPT ![c] = BotReply(messages)]
    /\ pc' = [pc EXCEPT ![c] = "done"]
    /\ UNCHANGED <<messages, arg, llmIn, resp, pre, sinceReset, okSinceReset, wasReset, dropped,
                   overlap, trace, retry_counts>>

\* the caller takes the result (or the exception) and may call again
CallerResume(c) ==
    /\ pc[c] \in {"done", "failed"}
    /\ pc' = [pc EXCEPT ![c] = "idle"]
    /\ arg' = [arg EXCEPT ![c] = NoValue]
    /\ llmIn' = [llmIn EXCEPT ![c] = <<>>]
    /\ resp' = [resp EXCEPT ![c] = NoValue]
    /\ ret' = [ret EXCEPT ![c] = NoValue]
    /\ pre' = [pre EXCEPT ![c] = <<>>]
    /\ trace' = [trace EXCEPT ![c] = <<>>]
    /\ UNCHANGED <<messages, sinceReset, okSinceReset, wasReset, dropped, overlap, retry_counts>>

\* service.py:34  self.state = {"messages": []}
ResetKeepsHistory(msgs) == msgs

ResetState(msgs) == <<>>

Reset ==
    /\ \A c \in Callers : Idle(c)
    /\ messages' = ResetState(messages)
    /\ dropped' = Len(messages)
    /\ sinceReset' = 0
    /\ okSinceReset' = 0
    /\ wasReset' = TRUE
    /\ overlap' = FALSE
    /\ UNCHANGED <<pc, arg, llmIn, resp, ret, pre, trace, retry_counts>>

\* calls executed one at a time: a chat() starts only when no other is running
Serial(c) == \A d \in Callers \ {c} : Idle(d)

(***************************************************************************)
(* Characters: str.upper() and str.lower() on the letters the model uses.  *)
(***************************************************************************)
UpperLetters == <<"A", "B", "C", "D", "E", "F", "G", "I", "J", "K", "L", "M",
                  "N", "O", "P", "R", "S", "T", "W", "X">>
LowerLetters == <<"a", "b", "c", "d", "e", "f", "g", "i", "j", "k", "l", "m",
                  "n", "o", "p", "r", "s", "t", "w", "x">>

LetterIndex(tbl, ch) == CHOOSE i \in 1..Len(tbl) : tbl[i] = ch

UpperChar(ch) ==
    IF \E i \in 1..Len(LowerLetters) : LowerLetters[i] = ch
    THEN UpperLetters[LetterIndex(LowerLetters, ch)] ELSE ch

LowerChar(ch) ==
    IF \E i \in 1..Len(UpperLetters) : UpperLetters[i] = ch
    THEN LowerLetters[LetterIndex(UpperLetters, ch)] ELSE ch

Upper(s) == [i \in 1..Len(s) |-> UpperChar(s[i])]
Lower(s) == [i \in 1..Len(s) |-> LowerChar(s[i])]

(***************************************************************************)
(* initialize_llm (llm_utils.py:19-58) and the module-level llm of         *)
(* graph.py:7.                                                             *)
(***************************************************************************)
OPENAI  == <<"O", "P", "E", "N", "A", "I">>
BEDROCK == <<"B", "E", "D", "R", "O", "C", "K">>
GEMINI  == <<"G", "E", "M", "I", "N", "I">>
SLIP    == <<"S", "L", "I", "P">>

Implemented == {OPENAI, BEDROCK, GEMINI}

\* graph.py's llm before the import has run line 7
Unbound == [kind |-> "unbound", value |-> NoValue]

\* (mutant) the configured name compared as written, without .upper()
initialize_llm_case_kept(name) ==
    IF name = OPENAI THEN [kind |-> "client", value |-> "ChatOpenAI"]
    ELSE IF name = BEDROCK THEN [kind |-> "client", value |-> "ChatBedrockConverse"]
    ELSE IF name = GEMINI THEN [kind |-> "client", value |-> "ChatGoogleGenerativeAI"]
    ELSE IF name = SLIP THEN [kind |-> "raise", value |-> "NotImplementedError"]
    ELSE [kind |-> "raise", value |-> "ValueError"]

\* the result of initialize_llm for a configured name: the client built, or the
\* exception raised
initialize_llm(name) ==
    LET client_name == Upper(name)
    IN  IF client_name = OPENAI THEN [kind |-> "client", value |-> "ChatOpenAI"]
        ELSE IF client_name = BEDROCK THEN [kind |-> "client", value |-> "ChatBedrockConverse"]
        ELSE IF client_name = GEMINI THEN [kind |-> "client", value |-> "ChatGoogleGenerativeAI"]
        ELSE IF client_name = SLIP THEN [kind |-> "raise", value |-> "NotImplementedError"]
        ELSE [kind |-> "raise", value |-> "ValueError"]

\* the names a configuration file may hold: every case variant of the four
\* names of the docstring, and names outside them
CaseVariants(base) ==
    { [i \in 1..Len(base) |-> IF i \in m THEN LowerChar(base[i]) ELSE base[i]] :
        m \in SUBSET (1..Len(base)) }

OtherNames ==
    { <<"F", "O", "O">>, <<"f", "o", "o">>, <<>>, <<"O", "P", "E", "N">>,
      <<"O", "P", "E", "N", "A", "I", "SP">>, <<"SP", "G", "E", "M", "I", "N", "I">>,
      <<"G", "E", "M", "I", "N", "I", "S">>, <<"s", "l", "i", "p", "s">> }

ConfigNames ==
    CaseVariants(OPENAI) \cup CaseVariants(BEDROCK) \cup CaseVariants(GEMINI)
        \cup CaseVariants(SLIP) \cup OtherNames

InitLlm ==
    /\ cfgName \in ConfigNames
    /\ llm = Unbound
    /\ built = {}
    /\ netCalls = 0

\* graph.py:7  llm = initialize_llm(), run once when the module is imported
InitializeLlm ==
    /\ llm = Unbound
    /\ llm' = initialize_llm(cfgName)
    /\ built' = IF llm'.kind = "client" THEN built \cup {llm'.value} ELSE built
    /\ UNCHANGED <<cfgName, netCalls>>

\* graph.py:10  llm.invoke(...): the only place a request leaves for the provider;
\* it needs the import of graph.py to have bound llm to a client
ProviderRequest ==
    /\ llm.kind = "client"
    /\ netCalls < MaxNetCalls
    /\ netCalls' = netCalls + 1
    /\ UNCHANGED <<cfgName, llm, built>>


(***************************************************************************)
(* clean_prompt (prompt_utils.py:11-52).                                   *)
(***************************************************************************)
RECURSIVE Interleave(_, _)
\* str.replace("", new): new goes before every character and at the end
Interleave(s, new) ==
    IF s = <<>> THEN new ELSE new \o <<Head(s)>> \o Interleave(Tail(s), new)

RECURSIVE Replace(_, _, _)
\* str.replace(old, new): every non-overlapping occurrence, leftmost first
Replace(s, old, new) ==
    IF old = <<>> THEN Interleave(s, new)
    ELSE IF Len(s) < Len(old) THEN s
    ELSE IF StartsWith(s, old) THEN new \o Replace(Drop(s, Len(old)), old, new)
    ELSE <<Head(s)>> \o Replace(Tail(s), old, new)

\* the characters \s matches and str.strip() removes
IsSpace(ch) == ch \in {"SP", "TAB", "NL", "CR"}

RECURSIVE LStrip(_)
LStrip(s) == IF s # <<>> /\ IsSpace(Head(s)) THEN LStrip(Tail(s)) ELSE s

RECURSIVE RStrip(_)
RStrip(s) ==
    IF s # <<>> /\ IsSpace(Last(s)) THEN RStrip(SubSeq(s, 1, Len(s) - 1)) ELSE s

\* str.strip()
Strip(s) == RStrip(LStrip(s))

RECURSIVE CollapseWs(_)
\* re.sub(r'\s+', ' ', text): every maximal whitespace run becomes one space
CollapseWs(s) ==
    IF s = <<>> THEN <<>>
    ELSE IF IsSpace(Head(s)) THEN <<"SP">> \o CollapseWs(LStrip(s))
    ELSE <<Head(s)>> \o CollapseWs(Tail(s))

\* the placeholder text <NEWLINE> of prompt_utils.py:45,47
NEWLINE == <<"<", "N", "E", "W", "L", "I", "N", "E", ">">>

\* (mutant) the backslashes removed last, after the newlines are restored
clean_prompt_backslashes_last(prompt, rb, cw, pn) ==
    IF prompt = <<>> THEN <<>>
    ELSE
      LET t2 == Replace(prompt, <<"TAB">>, <<"SP">>)
          t3 == IF cw
                THEN IF pn
                     THEN Replace(CollapseWs(Replace(t2, <<"NL">>, NEWLINE)),
                                  NEWLINE, <<"NL">>)
                     ELSE CollapseWs(t2)
                ELSE t2
          t4 == IF rb THEN Replace(t3, <<"BS">>, <<>>) ELSE t3
      IN  Strip(t4)

\* (mutant) preserve_newlines ignored: newlines collapse with the other whitespace
clean_prompt_newlines_flattened(prompt, rb, cw, pn) ==
    IF prompt = <<>> THEN <<>>
    ELSE
      LET t1 == IF rb THEN Replace(prompt, <<"BS">>, <<>>) ELSE prompt
          t2 == Replace(t1, <<"TAB">>, <<"SP">>)
          t3 == IF cw THEN CollapseWs(t2) ELSE t2
      IN  Strip(t3)

clean_prompt(prompt, remove_backslashes, collapse_whitespace, preserve_newlines) ==
    IF prompt = <<>> THEN <<>>
    ELSE
      LET t1 == IF remove_backslashes THEN Replace(prompt, <<"BS">>, <<>>) ELSE prompt
          t2 == Replace(t1, <<"TAB">>, <<"SP">>)
          t3 == IF collapse_whitespace
                THEN IF preserve_newlines
                     THEN Replace(CollapseWs(Replace(t2, <<"NL">>, NEWLINE)),
                                  NEWLINE, <<"NL">>)
                     ELSE CollapseWs(t2)
                ELSE t2
      IN  Strip(t3)

\* the pieces the prompts of the model are built from
Chunks ==
    { <<"BS">>, <<"TAB">>, <<"NL">>, <<"SP">>, <<"a">>, NEWLINE,
      <<"<", "N", "E", "W">>, <<"L", "I", "N", "E", ">">> }

RECURSIVE Concat(_)
Concat(ss) == IF ss = <<>> THEN <<>> ELSE Head(ss) \o Concat(Tail(ss))

\* the prompt of the example: a\b<TAB><TAB>c<NL><NL><SPACE>d
ExamplePrompt == <<"a", "BS", "b", "TAB", "TAB", "c", "NL", "NL", "SP", "d">>

Prompts ==
    { Concat(f) : f \in UNION { [1..n -> Chunks] : n \in 0..MaxChunks } }
        \cup {ExamplePrompt}

Flags == [rb : BOOLEAN, cw : BOOLEAN, pn : BOOLEAN]

InitClean ==
    /\ cpIn \in Prompts
    /\ cpFlags \in Flags
    /\ cpOut = NoValue
    /\ cpOut2 = NoValue
    /\ cpPc = "start"

\* clean_prompt(prompt, ...) with the flags of the run
CleanWith(fl, text) == clean_prompt(text, fl.rb, fl.cw, fl.pn)

CleanOnce ==
    /\ cpPc = "start"
    /\ cpOut' = CleanWith(cpFlags, cpIn)
    /\ cpPc' = "once"
    /\ UNCHANGED <<cpIn, cpFlags, cpOut2>>

\* clean_prompt applied to its own output, same flags
CleanAgain ==
    /\ cpPc = "once"
    /\ cpOut2' = CleanWith(cpFlags, cpOut)
    /\ cpPc' = "twice"
    /\ UNCHANGED <<cpIn, cpFlags, cpOut>>


(***************************************************************************)
(* The bucket behind S3Utils: keys, their order, and the service's answers.*)
(***************************************************************************)
KeyA    == <<"d", "/", "a", ".", "t", "x", "t">>
KeyB    == <<"d", "/", "b", ".", "j", "s", "o", "n">>
KeyC    == <<"d", "/", "c", ".", "T", "X", "T">>
KeyDD   == <<"d", "/", "d", "/", "a", ".", "t", "x", "t">>
KeyE    == <<"e", "/", "a", ".", "t", "x", "t">>
KeyDDA  == <<"d", "d", "/", "a", ".", "t", "x", "t">>

KeyUniverse == {KeyA, KeyB, KeyC, KeyDD, KeyE, KeyDDA}

Prefixes == { <<>>, <<"d">>, <<"d", "/">>, <<"e", "/">>, <<"x">> }

ExtTxt  == <<".", "t", "x", "t">>
ExtTXT  == <<".", "T", "X", "T">>
ExtJson == <<".", "j", "s", "o", "n">>

\* the extensions argument (Optional[List[str]]): None, or a list of suffixes
None == [given |-> FALSE, items |-> <<>>]
List(l) == [given |-> TRUE, items |-> l]

ExtensionArgs ==
    { None, List(<<>>), List(<<ExtTxt>>), List(<<ExtTXT>>), List(<<ExtJson, ExtTxt>>) }

\* the characters of the keys in code-point order (the order S3 lists keys in)
CodePoints == <<".", "/", "T", "X", "a", "b", "c", "d", "e", "j", "n", "o", "s", "t", "x">>

CodePoint(ch) == CHOOSE i \in 1..Len(CodePoints) : CodePoints[i] = ch

RECURSIVE KeyLess(_, _)
KeyLess(a, b) ==
    IF b = <<>> THEN FALSE
    ELSE IF a = <<>> THEN TRUE
    ELSE IF Head(a) = Head(b) THEN KeyLess(Tail(a), Tail(b))
    ELSE CodePoint(Head(a)) < CodePoint(Head(b))

RECURSIVE SortedKeys(_)
SortedKeys(S) ==
    IF S = {} THEN <<>>
    ELSE LET m == CHOOSE k \in S : \A o \in S \ {k} : KeyLess(k, o)
         IN  <<m>> \o SortedKeys(S \ {m})

\* the keys a list request with Prefix=prefix matches, in listing order
Matching(b, prefix) == SortedKeys({k \in b : StartsWith(k, prefix)})

RECURSIVE Pages(_)
\* the response pages: at most MaxKeys keys each; a page with no key carries
\* no "Contents" entry, here the empty page
Pages(keys) ==
    IF Len(keys) <= MaxKeys THEN <<keys>>
    ELSE <<SubSeq(keys, 1, MaxKeys)>> \o Pages(Drop(keys, MaxKeys))

Returned(v) == [kind |-> "return", value |-> v]
Raised(e)   == [kind |-> "raise", value |-> e]

\* what a request meets before the bucket is looked at
Refusal(st) ==
    IF st = "denied" THEN [exc |-> "ClientError", code |-> "403"]
    ELSE [exc |-> "EndpointConnectionError", code |-> NoValue]

\* s3.head_object(Bucket, Key)
head_object(b, st, key) ==
    IF st # "up" THEN Raised(Refusal(st))
    ELSE IF key \in b THEN Returned("metadata")
    ELSE Raised([exc |-> "ClientError", code |-> "404"])

(***************************************************************************)
(* S3Utils.file_exists_in_s3 (s3_utils.py:101-120).                        *)
(***************************************************************************)
\* (mutant) every error of the head request answered with False
file_exists_any_error_false(b, st, key) ==
    IF head_object(b, st, key).kind = "return" THEN Returned(TRUE) ELSE Returned(FALSE)

file_exists_in_s3(b, st, key) ==
    LET h == head_object(b, st, key)
    IN  IF h.kind = "return" THEN Returned(TRUE)
        ELSE IF h.value.exc = "ClientError"
             THEN IF h.value.code = "404" THEN Returned(FALSE) ELSE Raised(h.value)
             ELSE Raised(h.value)

(***************************************************************************)
(* S3Utils.list_files_with_ext (s3_utils.py:35-61).                        *)
(***************************************************************************)
\* any(f["Key"].lower().endswith(ext.lower()) for ext in extensions)
AnyExt(key, extensions) ==
    \E i \in 1..Len(extensions.items) :
        EndsWith(Lower(key), Lower(extensions.items[i]))

\* not extensions or len(extensions) == 0
NoExtensions(extensions) == ~extensions.given \/ Len(extensions.items) = 0

\* the keys one page adds to output_files
PageFiles(page, extensions) ==
    IF NoExtensions(extensions) THEN page
    ELSE SelectSeq(page, LAMBDA k : AnyExt(k, extensions))

RECURSIVE CollectPages(_, _)
CollectPages(pages, extensions) ==
    IF pages = <<>> THEN <<>>
    ELSE PageFiles(Head(pages), extensions) \o CollectPages(Tail(pages), extensions)

\* (mutant) the suffixes compared with their case kept, as copy_local_dir_to_s3
\* compares them
list_files_case_kept(b, prefix, extensions) ==
    IF NoExtensions(extensions) THEN Matching(b, prefix)
    ELSE SelectSeq(Matching(b, prefix),
                   LAMBDA k : \E i \in 1..Len(extensions.items) :
                                  EndsWith(k, extensions.items[i]))

list_files_with_ext(b, prefix, extensions) ==
    CollectPages(Pages(Matching(b, prefix)), extensions)

(***************************************************************************)
(* S3Utils.delete_s3_folder (s3_utils.py:263-280): one list_objects        *)
(* request, no paginator, then one delete_object per key of the response.  *)
(***************************************************************************)
\* list_objects(...)["Contents"], [] on KeyError
FolderContents(b, prefix) ==
    LET page == Head(Pages(Matching(b, prefix))) IN page

Range(s) == { s[i] : i \in 1..Len(s) }

delete_s3_folder(b, prefix) == b \ Range(FolderContents(b, prefix))


(***************************************************************************)
(* The S3Utils calls as operations on the bucket.                          *)
(***************************************************************************)
NoCall == [op |-> "none", key |-> <<>>, prefix |-> <<>>, extensions |-> None,
           before |-> {}, st |-> "up", out |-> [kind |-> "none", value |-> NoValue]]

InitS3 ==
    /\ bucket \in SUBSET KeyUniverse
    /\ store = "up"
    /\ s3ret = NoCall
    /\ localDirs = {}
    /\ localFiles = {}
    /\ downloads = <<>>

\* the service changes how it answers (credentials revoked, network lost, restored)
StoreBecomes(st) ==
    /\ st # store
    /\ store' = st
    /\ UNCHANGED <<bucket, s3ret, localDirs, localFiles, downloads>>

\* the record of a call: its arguments, the bucket and the service's state it
\* met, and its outcome
Call(op, key, prefix, extensions, out) ==
    [op |-> op, key |-> key, prefix |-> prefix, extensions |-> extensions,
     before |-> bucket, st |-> store, out |-> out]

\* what a call that sends one request returns: None, or the request's error
Sent(st) == IF st = "up" THEN Returned(NoValue) ELSE Raised(Refusal(st))

\* s3_utils.py:318-329  upload_string_to_s3: one put_object
UploadString(key) ==
    /\ bucket' = IF store = "up" THEN bucket \cup {key} ELSE bucket
    /\ s3ret' = Call("upload_string_to_s3", key, <<>>, None, Sent(store))
    /\ UNCHANGED <<store, localDirs, localFiles, downloads>>

\* s3_utils.py:357-367  delete_specific_file: one delete_object
DeleteSpecificFile(key) ==
    /\ bucket' = IF store = "up" THEN bucket \ {key} ELSE bucket
    /\ s3ret' = Call("delete_specific_file", key, <<>>, None, Sent(store))
    /\ UNCHANGED <<store, localDirs, localFiles, downloads>>

FileExists(key) ==
    /\ s3ret' = Call("file_exists_in_s3", key, <<>>, None,
                     file_exists_in_s3(bucket, store, key))
    /\ UNCHANGED <<bucket, store, localDirs, localFiles, downloads>>

ListFilesWithExt(prefix, extensions) ==
    /\ s3ret' = Call("list_files_with_ext", <<>>, prefix, extensions,
                     IF store = "up"
                     THEN Returned(list_files_with_ext(bucket, prefix, extensions))
                     ELSE Raised(Refusal(store)))
    /\ UNCHANGED <<bucket, store, localDirs, localFiles, downloads>>

DeleteFolder(prefix) ==
    /\ bucket' = IF store = "up" THEN delete_s3_folder(bucket, prefix) ELSE bucket
    /\ s3ret' = Call("delete_s3_folder", <<>>, prefix, None, Sent(store))
    /\ UNCHANGED <<store, localDirs, localFiles, downloads>>

(***************************************************************************)
(* S3Utils.copy_s3_dir_to_local (s3_utils.py:210-237) and the local file   *)
(* system it writes to.                                                    *)
(***************************************************************************)
RECURSIVE LStripSlash(_)
LStripSlash(s) == IF s # <<>> /\ Head(s) = "/" THEN LStripSlash(Tail(s)) ELSE s

RECURSIVE RStripSlash(_)
RStripSlash(s) ==
    IF s # <<>> /\ Last(s) = "/" THEN RStripSlash(SubSeq(s, 1, Len(s) - 1)) ELSE s

\* str.strip("/")
StripSlashes(s) == RStripSlash(LStripSlash(s))

\* the positions of the "/" characters of a path
SlashAt(s) == { i \in 1..Len(s) : s[i] = "/" }

Max(S) == CHOOSE m \in S : \A o \in S : o <= m

\* s.split("/")[-1]
LastSegment(s) == IF SlashAt(s) = {} THEN s ELSE Drop(s, Max(SlashAt(s)))

\* os.path.join(a, b)
PathJoin(a, b) ==
    IF b # <<>> /\ Head(b) = "/" THEN b
    ELSE IF a = <<>> \/ Last(a) = "/" THEN a \o b
    ELSE a \o <<"/">> \o b

Root == <<"/">>

\* a directory path without its trailing slashes
DirName(p) == IF p # <<>> /\ RStripSlash(p) = <<>> THEN Root ELSE RStripSlash(p)

\* the directory a file path lies in; <<>> is the working directory
ParentDir(p) ==
    IF SlashAt(p) = {} THEN <<>> ELSE DirName(SubSeq(p, 1, Max(SlashAt(p))))

DirExists(dirs, d) == d \in dirs \cup {<<>>, Root}

\* os.makedirs(p, exist_ok=True): p and every directory above it
MakeDirs(dirs, p) ==
    dirs \cup ({ DirName(SubSeq(p, 1, i)) : i \in SlashAt(p) \cup {Len(p)} } \ {<<>>, Root})

\* s3.download_file(bucket, key, path): the error it raises, or "ok"
DownloadError(b, dirs, key, path) ==
    IF key \notin b THEN "ClientError 404"
    ELSE IF ~DirExists(dirs, ParentDir(path)) THEN "FileNotFoundError"
    ELSE IF DirExists(dirs, DirName(path)) THEN "IsADirectoryError"
    ELSE "ok"

\* the file path now holds the object of key
WriteFile(files, key, path) ==
    { f \in files : f.path # path } \cup {[path |-> path, key |-> key]}

\* the local names of one key (s3_utils.py:229-231)
S3FileName(src_prefix, s3_file_key) == Replace(s3_file_key, src_prefix \o <<"/">>, <<>>)
FolderName(s3_file_name) == Replace(s3_file_name, LastSegment(s3_file_name), <<>>)

RECURSIVE CopyLoop(_, _, _, _, _)
\* the for loop of s3_utils.py:227-237 over the listed keys; fs holds the local
\* directories and files, the download_file calls made, and the error that
\* ended the loop
CopyLoop(b, src_prefix, dest_dir, keys, fs) ==
    IF keys = <<>> \/ fs.err # "ok" THEN fs
    ELSE
      LET s3_file_name == S3FileName(src_prefix, Head(keys))
          folder_name  == FolderName(s3_file_name)
          dirs1        == MakeDirs(fs.dirs, PathJoin(dest_dir, folder_name))
          key          == PathJoin(src_prefix, s3_file_name)
          path         == PathJoin(dest_dir, s3_file_name)
          e            == DownloadError(b, dirs1, key, path)
      IN  CopyLoop(b, src_prefix, dest_dir, Tail(keys),
                   [dirs  |-> dirs1,
                    files |-> IF e = "ok" THEN WriteFile(fs.files, key, path) ELSE fs.files,
                    log   |-> Append(fs.log, [key |-> key, path |-> path]),
                    err   |-> e])

copy_s3_dir_to_local(b, dirs, files, src_prefix, dest_dir, extensions) ==
    LET stripped    == StripSlashes(src_prefix)
        s3_file_keys == list_files_with_ext(b, stripped, extensions)
    IN  CopyLoop(b, stripped, dest_dir, s3_file_keys,
                 [dirs |-> MakeDirs(dirs, dest_dir), files |-> files,
                  log |-> <<>>, err |-> "ok"])

DestDirs == { <<"o">>, <<"o", "/">> }

CopyPrefixes == { <<"d">>, <<"d", "/">>, <<"/", "d", "/">>, <<"e">> }

CopyS3DirToLocal(src_prefix, dest_dir, extensions) ==
    /\ store = "up"
    /\ LET fs == copy_s3_dir_to_local(bucket, localDirs, localFiles,
                                      src_prefix, dest_dir, extensions)
       IN  /\ localDirs' = fs.dirs
           /\ localFiles' = fs.files
           /\ downloads' = fs.log
           /\ s3ret' = Call("copy_s3_dir_to_local", dest_dir, src_prefix, extensions,
                            IF fs.err = "ok" THEN Returned(NoValue) ELSE Raised(fs.err))
    /\ UNCHANGED <<bucket, store>>

\* the caller removes the local tree between two copies
RemoveLocalTree ==
    /\ localDirs # {}
    /\ localDirs' = {}
    /\ localFiles' = {}
    /\ s3ret' = NoCall
    /\ downloads' = <<>>
    /\ UNCHANGED <<bucket, store>>

(***************************************************************************)
(* generate_node and reflect_node (chatbot/nodes), called with a           *)
(* ChatState; neither is added to the compiled graph.                      *)
(***************************************************************************)

Messages == {HumanMessage(x) : x \in Inputs} \cup {AIMessage(r) : r \in Replies}

Conversations == UNION {[1..n -> Messages] : n \in 0..MaxConv}

\* models/reflection.py:4-8  ReflectionModel: score is 'yes' or 'no'
Scores == {"yes", "no"}
Explanations == {"e1"}
ReflectionModel == [score : Scores, explanation : Explanations]

IndexError == "IndexError"
StopIteration == "StopIteration"

NoGrade == [score |-> NoValue, explanation |-> NoValue]
NoInfo == [passed |-> FALSE, explanation |-> NoValue, should_retry |-> FALSE]

\* the outcome of a node call: what it was called with, what it passed to its
\* chain, and what it returned or raised
NoNodeCall ==
    [node |-> "none", before |-> <<>>, answer |-> NoValue, question |-> NoValue,
     grade |-> NoGrade, raised |-> NoValue, out |-> <<>>, info |-> NoInfo]

NodeRaised(node, msgs, e) ==
    [NoNodeCall EXCEPT !.node = node, !.before = msgs, !.raised = e, !.out = msgs]

\* reflect.py:12  isinstance(m, HumanMessage)
IsHumanMessage(m) == m.role = "human"

\* reflect.py:12  the generator: the contents of the human messages, in order
HumanContents(msgs) ==
    LET H == SelectSeq(msgs, IsHumanMessage)
    IN  [i \in 1..Len(H) |-> H[i].content]

\* reflect.py:12  next(...): the generator's first item, StopIteration if it has none
next(gen) == IF gen = <<>> THEN StopIteration ELSE Head(gen)

\* (mutant) the question taken from the latest human message
QuestionLatest(msgs) ==
    LET H == {i \in 1..Len(msgs) : msgs[i].role = "human"}
    IN  IF H = {} THEN StopIteration
        ELSE msgs[CHOOSE i \in H : \A j \in H : j <= i].content

\* reflect.py:12  next(m.content for m in state["messages"] if isinstance(m, HumanMessage))
Question(msgs) == next(HumanContents(msgs))

\* reflect.py:16-20  reflection_info
ReflectionInfo(grade) ==
    [passed |-> grade.score = "yes",
     explanation |-> grade.explanation,
     should_retry |-> grade.score # "yes"]

\* reflect.py:9-22  reflect_node, the grading chain answering with grade
reflect_node(msgs, grade) ==
    IF msgs = <<>> THEN NodeRaised("reflect", msgs, IndexError)
    ELSE IF Question(msgs) = StopIteration THEN NodeRaised("reflect", msgs, StopIteration)
    ELSE [node |-> "reflect", before |-> msgs,
          answer |-> Last(msgs).content, question |-> Question(msgs),
          grade |-> grade, raised |-> NoValue,
          out |-> msgs, info |-> ReflectionInfo(grade)]

\* generate.py:6-14  generate_node, the generation chain answering with content r
generate_node(msgs, r) ==
    IF msgs = <<>> THEN NodeRaised("generate", msgs, IndexError)
    ELSE [node |-> "generate", before |-> msgs,
          answer |-> r, question |-> Last(msgs).content,
          grade |-> NoGrade, raised |-> NoValue,
          out |-> Append(msgs, AIMessage(r)), info |-> NoInfo]

InitNodes == conv \in Conversations /\ nodeRet = NoNodeCall

\* generate_node(state) on a conversation; the state's list is appended in place
GenerateNode(r) ==
    /\ nodeRet.node = "none"
    /\ nodeRet' = generate_node(conv, r)
    /\ conv' = nodeRet'.out

\* reflect_node(state), on a conversation as given or after generate_node
ReflectNode(grade) ==
    /\ nodeRet.node \in {"none", "generate"}
    /\ nodeRet.raised = NoValue
    /\ nodeRet' = reflect_node(conv, grade)
    /\ conv' = nodeRet'.out

(***************************************************************************)
(* The specifications.  Each leaves the variables of the other parts at    *)
(* their initial values.                                                   *)
(***************************************************************************)
RestChat  == InitChat
RestNodes == conv = <<>> /\ nodeRet = NoNodeCall
RestLlm   == cfgName = OPENAI /\ llm = Unbound /\ built = {} /\ netCalls = 0
RestClean == cpIn = <<>> /\ cpFlags = [rb |-> TRUE, cw |-> TRUE, pn |-> FALSE]
                /\ cpOut = NoValue /\ cpOut2 = NoValue /\ cpPc = "start"
RestS3    == bucket = {} /\ store = "up" /\ s3ret = NoCall /\ localDirs = {}
                /\ localFiles = {} /\ downloads = <<>>

\* ChatbotService, its calls executed one at a time
Init == InitChat /\ RestNodes /\ RestLlm /\ RestClean /\ RestS3

Next ==
    \/ \E c \in Callers, x \in Inputs :
          Serial(c) /\ ChatAppend(c, x) /\ UNCHANGED <<nodeVars, llmVars, cleanVars, s3Vars>>
    \/ \E c \in Callers, r \in Replies :
          LlmInvokeOk(c, r) /\ UNCHANGED <<nodeVars, llmVars, cleanVars, s3Vars>>
    \/ \E c \in Callers : LlmInvokeFail(c) /\ UNCHANGED <<nodeVars, llmVars, cleanVars, s3Vars>>
    \/ \E c \in Callers : NodeAppend(c) /\ UNCHANGED <<nodeVars, llmVars, cleanVars, s3Vars>>
    \/ \E c \in Callers : ChatReturn(c) /\ UNCHANGED <<nodeVars, llmVars, cleanVars, s3Vars>>
    \/ \E c \in Callers : CallerResume(c) /\ UNCHANGED <<nodeVars, llmVars, cleanVars, s3Vars>>
    \/ Reset /\ UNCHANGED <<nodeVars, llmVars, cleanVars, s3Vars>>

Spec == Init /\ [][Next]_vars

\* a call that is running keeps running: once llm.invoke has returned, the
\* statements after it (graph.py:11-12, service.py:24-28) are executed
Running_Continues ==
    \A c \in Callers :
        /\ WF_vars(NodeAppend(c) /\ UNCHANGED <<nodeVars, llmVars, cleanVars, s3Vars>>)
        /\ WF_vars(ChatReturn(c) /\ UNCHANGED <<nodeVars, llmVars, cleanVars, s3Vars>>)

SpecFair == Spec /\ Running_Continues

\* ChatbotService called by two callers with nothing serialising the calls: a
\* chat() may be entered while another is running
NextConc ==
    \/ \E c \in Callers, x \in Inputs :
          Len(messages) < MaxConcMsgs /\ ChatAppend(c, x) /\ UNCHANGED <<nodeVars, llmVars, cleanVars, s3Vars>>
    \/ \E c \in Callers, r \in Replies :
          LlmInvokeOk(c, r) /\ UNCHANGED <<nodeVars, llmVars, cleanVars, s3Vars>>
    \/ \E c \in Callers : LlmInvokeFail(c) /\ UNCHANGED <<nodeVars, llmVars, cleanVars, s3Vars>>
    \/ \E c \in Callers : NodeAppend(c) /\ UNCHANGED <<nodeVars, llmVars, cleanVars, s3Vars>>
    \/ \E c \in Callers : ChatReturn(c) /\ UNCHANGED <<nodeVars, llmVars, cleanVars, s3Vars>>
    \/ \E c \in Callers : CallerResume(c) /\ UNCHANGED <<nodeVars, llmVars, cleanVars, s3Vars>>
    \/ Reset /\ UNCHANGED <<nodeVars, llmVars, cleanVars, s3Vars>>

SpecConc == Init /\ [][NextConc]_vars

\* the two nodes called directly
InitN == InitNodes /\ RestChat /\ RestLlm /\ RestClean /\ RestS3

NextN ==
    \/ \E r \in Replies : GenerateNode(r) /\ UNCHANGED <<chatVars, llmVars, cleanVars, s3Vars>>
    \/ \E g \in ReflectionModel :
          ReflectNode(g) /\ UNCHANGED <<chatVars, llmVars, cleanVars, s3Vars>>

SpecNodes == InitN /\ [][NextN]_vars

\* initialize_llm at the import of graph.py, then requests through llm
InitL == InitLlm /\ RestChat /\ RestNodes /\ RestClean /\ RestS3

NextL ==
    \/ InitializeLlm /\ UNCHANGED <<chatVars, nodeVars, cleanVars, s3Vars>>
    \/ ProviderRequest /\ UNCHANGED <<chatVars, nodeVars, cleanVars, s3Vars>>

SpecLlm == InitL /\ [][NextL]_vars

\* clean_prompt applied to a prompt, then to its own output
InitC == InitClean /\ RestChat /\ RestNodes /\ RestLlm /\ RestS3

NextC ==
    \/ CleanOnce /\ UNCHANGED <<chatVars, nodeVars, llmVars, s3Vars>>
    \/ CleanAgain /\ UNCHANGED <<chatVars, nodeVars, llmVars, s3Vars>>

SpecClean == InitC /\ [][NextC]_vars

\* S3Utils calls on one bucket
InitB == InitS3 /\ RestChat /\ RestNodes /\ RestLlm /\ RestClean

NextB ==
    \/ \E st \in {"up", "denied", "unreachable"} :
          StoreBecomes(st) /\ UNCHANGED <<chatVars, nodeVars, llmVars, cleanVars>>
    \/ \E k \in KeyUniverse : UploadString(k) /\ UNCHANGED <<chatVars, nodeVars, llmVars, cleanVars>>
    \/ \E k \in KeyUniverse : DeleteSpecificFile(k) /\ UNCHANGED <<chatVars, nodeVars, llmVars, cleanVars>>
    \/ \E k \in KeyUniverse : FileExists(k) /\ UNCHANGED <<chatVars, nodeVars, llmVars, cleanVars>>
    \/ \E p \in Prefixes, e \in ExtensionArgs :
          ListFilesWithExt(p, e) /\ UNCHANGED <<chatVars, nodeVars, llmVars, cleanVars>>
    \/ \E p \in Prefixes : DeleteFolder(p) /\ UNCHANGED <<chatVars, nodeVars, llmVars, cleanVars>>

SpecS3 == InitB /\ [][NextB]_vars

\* copy_s3_dir_to_local from a bucket to the local file system
NextD ==
    \/ \E p \in CopyPrefixes, d \in DestDirs, e \in {None, List(<<ExtTxt>>)} :
          CopyS3DirToLocal(p, d, e) /\ UNCHANGED <<chatVars, nodeVars, llmVars, cleanVars>>
    \/ RemoveLocalTree /\ UNCHANGED <<chatVars, nodeVars, llmVars, cleanVars>>

SpecCopy == InitB /\ [][NextD]_vars



(***************************************************************************)
(* Claims about ChatbotService (specification Spec).                       *)
(***************************************************************************)

\* C1: a chat(x) whose model call succeeded with reply r leaves the history
\* equal to the history h it found followed by exactly human(x), assistant(r),
\* and returns r.
C1_ChatRoundTrip ==
    \A c \in Callers :
        pc[c] = "done" =>
            /\ messages = pre[c] \o <<HumanMessage(arg[c]), AIMessage(resp[c])>>
            /\ Last(messages).role = "assistant"
            /\ messages[Len(messages) - 1] = [role |-> "human", content |-> arg[c]]
            /\ ret[c] = resp[c]

\* a successful chat on a history that already holds a full turn
C1_Witness == \E c \in Callers : pc[c] = "done" /\ Len(messages) = 4

\* C2: after reset() the conversation is empty; the first chat(x) after it, when it
\* succeeds, leaves exactly [human(x), assistant(reply)], and its model call
\* received human(x) alone.
C2_ResetThenChat ==
    /\ (wasReset /\ sinceReset = 0) => messages = <<>>
    /\ \A c \in Callers :
          (wasReset /\ sinceReset = 1 /\ pc[c] = "done") =>
              /\ messages = <<HumanMessage(arg[c]), AIMessage(ret[c])>>
              /\ llmIn[c] = <<HumanMessage(arg[c])>>

\* the first chat after a reset() that discarded a successful and a failed call
C2_Witness ==
    \E c \in Callers :
        /\ wasReset /\ sinceReset = 1 /\ pc[c] = "done"
        /\ dropped = 3

\* C3: when the model call fails, chat raises the failure, no assistant message is
\* appended, and the history is the one it found followed by human(x).
C3_FailureKeepsHuman ==
    \A c \in Callers :
        pc[c] = "failed" =>
            /\ ret[c] = GenerationFailure
            /\ resp[c] = NoValue
            /\ messages = pre[c] \o <<HumanMessage(arg[c])>>

\* a failed chat on a history that is not empty
C3_Witness == \E c \in Callers : pc[c] = "failed" /\ Len(pre[c]) >= 2


(***************************************************************************)
(* Claims about initialize_llm (specification SpecLlm).                    *)
(***************************************************************************)
ImplementedVariants ==
    CaseVariants(OPENAI) \cup CaseVariants(BEDROCK) \cup CaseVariants(GEMINI)

ClientOf(base) ==
    IF base = OPENAI THEN "ChatOpenAI"
    ELSE IF base = BEDROCK THEN "ChatBedrockConverse" ELSE "ChatGoogleGenerativeAI"

\* C4: once initialize_llm has run, a name that is an implemented provider's name
\* in any mix of cases gave that provider's client; every other name (SLIP in any
\* case, or an unknown name) raised, with no client built and no request sent.
\* No request is ever sent without a client.
C4_ProviderDispatch ==
    /\ llm.kind # "client" => netCalls = 0
    /\ llm.kind # "unbound" =>
          /\ \A base \in Implemented :
                cfgName \in CaseVariants(base) =>
                    llm = [kind |-> "client", value |-> ClientOf(base)]
          /\ cfgName \notin ImplementedVariants =>
                /\ llm.kind = "raise"
                /\ llm.value \in {"ValueError", "NotImplementedError"}
                /\ built = {}

\* the unknown name FOO was refused
C4_Witness ==
    /\ llm.kind = "raise"
    /\ cfgName = <<"F", "O", "O">>

(***************************************************************************)
(* Claims about S3Utils (specification SpecS3).                            *)
(***************************************************************************)

\* C5: file_exists_in_s3(key) returns True when the head request succeeds, False
\* when the service answers "not found", and raises every other error of the
\* service or of the transport.
C5_ExistsOrRaises ==
    s3ret.op = "file_exists_in_s3" =>
        /\ (s3ret.st = "up" /\ s3ret.key \in s3ret.before) => s3ret.out = Returned(TRUE)
        /\ (s3ret.st = "up" /\ s3ret.key \notin s3ret.before) => s3ret.out = Returned(FALSE)
        /\ s3ret.st = "denied" =>
              s3ret.out = Raised([exc |-> "ClientError", code |-> "403"])
        /\ s3ret.st = "unreachable" =>
              /\ s3ret.out.kind = "raise"
              /\ s3ret.out.value.exc = "EndpointConnectionError"

\* the key is in the bucket, the bucket is unreachable, and the call raised
C5_Witness ==
    /\ s3ret.op = "file_exists_in_s3"
    /\ s3ret.st = "unreachable"
    /\ s3ret.key \in s3ret.before
    /\ s3ret.out.kind = "raise"

\* a suffix compared with the case of its letters ignored
EndsWithIgnoringCase(k, e) ==
    /\ Len(e) <= Len(k)
    /\ \A i \in 1..Len(e) : UpperChar(k[Len(k) - Len(e) + i]) = UpperChar(e[i])

NoFilter(extensions) == extensions = None \/ extensions = List(<<>>)

\* C6: list_files_with_ext returns exactly the keys under the prefix that end with
\* one of the extensions, case ignored, each once, over all pages; every key under
\* the prefix when extensions is absent or empty.
C6_ListExactly ==
    (s3ret.op = "list_files_with_ext" /\ s3ret.out.kind = "return") =>
        LET res == s3ret.out.value
            want == { k \in s3ret.before :
                        /\ StartsWith(k, s3ret.prefix)
                        /\ \/ NoFilter(s3ret.extensions)
                           \/ \E i \in 1..Len(s3ret.extensions.items) :
                                 EndsWithIgnoringCase(k, s3ret.extensions.items[i]) }
        IN  /\ Range(res) = want
            /\ Len(res) = Cardinality(want)

\* the example: a.txt, b.json and c.TXT under d/ (more keys than one page holds),
\* filter [".txt"], result a.txt and c.TXT
C6_Witness ==
    /\ s3ret.op = "list_files_with_ext"
    /\ s3ret.before = {KeyA, KeyB, KeyC}
    /\ s3ret.prefix = <<"d", "/">>
    /\ s3ret.extensions = List(<<ExtTxt>>)
    /\ s3ret.out = Returned(<<KeyA, KeyC>>)
    /\ Len(Pages(Matching(s3ret.before, s3ret.prefix))) > 1

\* C7: delete_s3_folder(prefix) leaves no key with the prefix in the bucket,
\* however many there were, and leaves every other key in place.
C7_DeleteFolderAll ==
    (s3ret.op = "delete_s3_folder" /\ s3ret.out.kind = "return") =>
        /\ \A k \in bucket : ~StartsWith(k, s3ret.prefix)
        /\ \A k \in s3ret.before : ~StartsWith(k, s3ret.prefix) => k \in bucket


(***************************************************************************)
(* Claims about clean_prompt (specification SpecClean).                    *)
(***************************************************************************)

\* C8: clean_prompt is idempotent: applied to its own output with the same
\* flags it returns that output.
C8_Idempotent == cpPc = "twice" => cpOut2 = cpOut

\* a prompt with a newline inside that the first application changed, all flags on
C8_Witness ==
    /\ cpPc = "twice"
    /\ cpFlags = [rb |-> TRUE, cw |-> TRUE, pn |-> TRUE]
    /\ cpOut # cpIn
    /\ \E i \in 1..Len(cpOut) : cpOut[i] = "NL"

Cleaned == cpPc # "start" /\ cpFlags.cw /\ cpFlags.pn

\* the text with its spaces and tabs taken out
NoBlanks(s) == SelectSeq(s, LAMBDA ch : ch \notin {"SP", "TAB"})

\* the text with its backslashes taken out when remove_backslashes is set
NoBackslashes(fl, s) == IF fl.rb THEN SelectSeq(s, LAMBDA ch : ch # "BS") ELSE s

Occurs(sub, s) ==
    \E i \in 1..(Len(s) - Len(sub) + 1) : SubSeq(s, i, i + Len(sub) - 1) = sub

ExampleKept == <<"a", "b", "SP", "c", "NL", "NL", "SP", "d">>
ExampleOneNewline == <<"a", "b", "SP", "c", "NL", "d">>

ListedUnder(b, src_prefix, extensions) ==
    { k \in Range(list_files_with_ext(b, StripSlashes(src_prefix), extensions)) :
        StartsWith(k, StripSlashes(src_prefix) \o <<"/">>) }

\* the path of key relative to the directory src_prefix names
RelativeTo(src_prefix, k) == Drop(k, Len(StripSlashes(src_prefix)) + 1)

\* C10: copy_s3_dir_to_local mirrors the remote tree: for every listed key k
\* under src_prefix it has downloaded k itself to dest_dir joined with k's path
\* relative to src_prefix, in a directory that exists.
C10_MirrorsTree ==
    s3ret.op = "copy_s3_dir_to_local" =>
        \A k \in ListedUnder(s3ret.before, s3ret.prefix, s3ret.extensions) :
            LET path == PathJoin(s3ret.key, RelativeTo(s3ret.prefix, k))
            IN  /\ \E i \in 1..Len(downloads) : downloads[i] = [key |-> k, path |-> path]
                /\ DirExists(localDirs, ParentDir(path))
                /\ [path |-> path, key |-> k] \in localFiles


(***************************************************************************)
(* Claims about concurrent chat() calls (specification SpecConc).          *)
(***************************************************************************)

\* a caller was returned a reply that is not the answer the model gave to its call
WrongReply == \E c \in Callers : pc[c] = "done" /\ ret[c] # resp[c]

\* the history a serial execution leaves: every assistant message directly after
\* a human message
SerialShaped(msgs) ==
    \A i \in 1..Len(msgs) :
        msgs[i].role = "assistant" => (i > 1 /\ msgs[i - 1].role = "human")

\* C11: two chat() calls that interleave can reach a state where a caller got a
\* reply that is not the model's answer to its call, or where the history is not
\* that of a serial execution; no such state is reached unless a chat() was
\* entered while another was running.
C11_UnsafeOnlyInterleaved == (WrongReply \/ ~SerialShaped(messages)) => overlap

\* both happen at once: the history holds two assistant messages in a row and a
\* caller was returned the other call's reply
C11_Witness == WrongReply /\ ~SerialShaped(messages) /\ overlap


(***************************************************************************)
(* Claims about the pipeline of one chat() call (specification Spec).      *)
(***************************************************************************)

\* the model call of caller c's chat() has been made
Invoked(c) == pc[c] \in {"append", "read", "done", "failed"}

Texts(msgs) == [i \in 1..Len(msgs) |-> msgs[i].content]

\* C12 (as stated): in Start -> Generating the model is given the text of the
\* last message only; earlier turns are not part of the model call.
C12_LastMessageOnly == \A c \in Callers : Invoked(c) => Texts(llmIn[c]) = <<arg[c]>>

\* C12 (amended): in Start -> Generating the model is given the whole history:
\* every message that was there before the call, in order, followed by the new
\* human message, which is the last message of the input.
C12_WholeHistory ==
    \A c \in Callers :
        Invoked(c) =>
            /\ llmIn[c] = pre[c] \o <<HumanMessage(arg[c])>>
            /\ Last(llmIn[c]) = HumanMessage(arg[c])

\* a model call made with an earlier turn in the history
C12_Witness ==
    \E c \in Callers :
        /\ pc[c] = "done"
        /\ Len(pre[c]) >= 2
        /\ Len(llmIn[c]) = Len(pre[c]) + 1


Pipeline == <<"Start", "Generating", "Done">>

IsPrefix(t, u) == Len(t) <= Len(u) /\ t = SubSeq(u, 1, Len(t))

\* the number of model calls the chat() in progress has made
ModelCalls(c) == Cardinality({i \in 1..Len(trace[c]) : trace[c][i] = "Generating"})

\* a call never leaves the path Start, Generating, Done, makes no second model
\* call, is never in the reflection node, and has made exactly one model call
\* and gone through all three states when it returns
OnPipeline ==
    \A c \in Callers :
        /\ IsPrefix(trace[c], Pipeline)
        /\ ModelCalls(c) <= 1
        /\ pc[c] # "reflect"
        /\ pc[c] = "done" => (trace[c] = Pipeline /\ ModelCalls(c) = 1)
        /\ Invoked(c) => ModelCalls(c) = 1

\* C13: in the shipped pipeline every chat() runs Start, Generating, Done with
\* exactly one model call, never enters the reflection node, never retries,
\* never changes retry_counts, and reaches Done whenever the model call returns.
C13_StartGeneratingDone ==
    /\ []OnPipeline
    /\ [][retry_counts' = retry_counts]_vars
    /\ \A c \in Callers : (pc[c] = "append") ~> (pc[c] = "done")

\* a chat() that returned, after an earlier one on the same service
C13_Witness ==
    \E c \in Callers :
        /\ pc[c] = "done"
        /\ trace[c] = Pipeline
        /\ retry_counts = <<>>
        /\ Len(pre[c]) >= 2


(***************************************************************************)
(* Claims about reflect_node (specification SpecNodes).                    *)
(***************************************************************************)

\* C14: called with a conversation that holds a human message, reflect_node
\* grades the tail message's text as the answer against the text of the first
\* human message as the question, reports passed exactly when the score is
\* "yes" and should_retry as its negation, and returns the conversation with
\* its messages unchanged.
C14_ReflectGradesFirstQuestion ==
    LET b == nodeRet.before
    IN  (nodeRet.node = "reflect" /\ \E i \in 1..Len(b) : IsHumanMessage(b[i])) =>
            /\ nodeRet.raised = NoValue
            /\ nodeRet.answer = b[Len(b)].content
            /\ \E i \in 1..Len(b) :
                  /\ IsHumanMessage(b[i])
                  /\ \A j \in 1..(i - 1) : ~IsHumanMessage(b[j])
                  /\ nodeRet.question = b[i].content
            /\ nodeRet.info.passed <=> nodeRet.grade.score = "yes"
            /\ nodeRet.info.should_retry <=> ~nodeRet.info.passed
            /\ nodeRet.out = b
            /\ conv = b

\* a failed grade of an answer to the second of two different questions
C14_Witness ==
    LET b == nodeRet.before
    IN  /\ nodeRet.node = "reflect"
        /\ nodeRet.raised = NoValue
        /\ nodeRet.grade.score = "no"
        /\ nodeRet.info.should_retry
        /\ Len(b) >= 3
        /\ ~IsHumanMessage(b[Len(b)])
        /\ \E i, j \in 1..Len(b) :
              i < j /\ IsHumanMessage(b[i]) /\ IsHumanMessage(b[j]) /\ b[i].content # b[j].content


(***************************************************************************)
(* Claims about the history of a service whose calls are executed one at   *)
(* a time (specification Spec).                                            *)
(***************************************************************************)

\* no chat() is in progress
Quiescent == \A c \in Callers : pc[c] \in {"idle", "done", "failed"}

CountRole(msgs, role) == Cardinality({i \in 1..Len(msgs) : msgs[i].role = role})

\* C15: after any sequence of chat() calls, succeeding or failing at the model
\* call, and reset() calls, every assistant message comes directly after a human
\* message, no two assistant messages are adjacent, the human messages are as
\* many as the chat() calls since the last reset and the assistant messages as
\* many as those of them that succeeded.
C15_HistoryShape ==
    Quiescent =>
        /\ \A i \in 1..Len(messages) :
              messages[i].role = "assistant" =>
                  /\ i > 1
                  /\ messages[i - 1].role = "human"
        /\ \A i \in 1..(Len(messages) - 1) :
              ~(messages[i].role = "assistant" /\ messages[i + 1].role = "assistant")
        /\ CountRole(messages, "human") = sinceReset
        /\ CountRole(messages, "assistant") = okSinceReset

\* after a reset, a failed call followed by a successful one with the same input
C15_Witness ==
    /\ Quiescent
    /\ wasReset
    /\ dropped > 0
    /\ sinceReset = 2
    /\ okSinceReset = 1
    /\ Len(messages) = 3
    /\ messages[1] = messages[2]
    /\ messages[3].role = "assistant"


====
